---- MODULE Spec2Model ----
(***************************************************************************)
(* File-conversion backend (Express + multer).  The repository holds four  *)
(* successive variants of the same server; two of them route conversions  *)
(* through the chained helpers convertImage / convertPdf / convertDocument *)
(* and are modelled here:                                                  *)
(*   "V2"  src/server.js lines 382-855          (aspose, outputType)       *)
(*   "V4"  src/unnamed/part_000 lines 492-1292  (libreoffice, pdftoppm)    *)
(* Node runs the handlers on one event loop: a step of the model is the    *)
(* code between two awaits, and steps of different requests interleave.    *)
(***************************************************************************)
EXTENDS Integers, Sequences, FiniteSets, TLC

VARIABLES
  variant,      \* which server file is running: "V2" or "V4"
  now,          \* Date.now(), in ms
  fs,           \* the files on disk (absolute paths)
  dirs,         \* the directories that exist
  pc,           \* position of each /api/convert handler
  req,          \* the request of each handler: files and formats
  idx,          \* loop variable i of the handler
  tempFiles,    \* handler's tempFiles
  outputFiles,  \* handler's outputFiles
  outputPath,   \* handler's outputPath of the current file
  response,     \* what res.status(..).json(..) sent, or NoResponse
  timer,        \* the setTimeout(conversionTimeout) of the current file
  stack,        \* call stack of conversion helpers under the handler
  thrown,       \* the error travelling up the stack, or NoError
  cl,           \* the running cleanupFiles call of each caller
  del,          \* the DELETE /api/delete/:filename request
  get,          \* the GET /converted/:filename request
  sweep,        \* the run of the periodic cleanup (setInterval)
  mtime,        \* modification time of each file on disk
  hist          \* history: what each handler invoked, created and saw

vars == <<variant, now, fs, dirs, pc, req, idx, tempFiles, outputFiles,
          outputPath, response, timer, stack, thrown, cl, del, get, sweep,
          mtime, hist>>

----------------------------------------------------------------------------
(* Bounds of the model *)

NBatches == 2
MaxFiles == 2
MaxMs == 1
MaxPaths == 2
MaxUploads == 2
MaxCalls == 2
MaxExpiries == 1
MaxStored == 2
MaxDepth == 5
MaxRequests == 2

(* Program constants *)

maxRetries == 3
retryDelay == 1000
conversionTimeout == 120000

----------------------------------------------------------------------------
(* Format registry *)

imageFormats == {"bmp", "eps", "gif", "ico", "png", "svg", "tga", "tiff",
                 "wbmp", "webp", "jpg", "jpeg"}
documentFormats == {"pdf", "docx", "txt", "rtf", "odt"}
audioFormats == {"mp3", "wav", "aac", "flac", "ogg", "opus", "wma"}
videoFormats == {"mp4", "avi", "mov", "webm", "mkv", "flv", "wmv"}
archiveFormats == {"zip", "7z"}
ebookFormats == {"epub", "mobi", "azw3"}

allFormats(v) ==
  IF v = "V3"
    THEN {"bmp", "eps", "ico", "svg", "tga", "wbmp", "jpg", "png", "gif"}
           \cup {"svg", "jpg", "png"} \cup {"jpg", "png", "gif", "docx", "pdf"}
           \cup {"aac", "aiff", "m4v", "mmf", "wma", "3g2"}
    ELSE imageFormats \cup documentFormats \cup audioFormats \cup videoFormats
           \cup archiveFormats \cup ebookFormats
           \cup (IF v = "V4" THEN {"aac", "aiff", "m4v", "mmf", "wma", "3g2"} ELSE {})

conversionTypes == {"image", "compressor", "pdfs", "audio", "video",
                    "document", "archive", "ebook"}

(* Object.keys(supportedFormats) of src/unnamed/part_000 1-491 *)
conversionTypesV3 == {"image", "compressor", "pdfs", "audio"}

supportedFormats(v, type) ==
  IF v = "V3"
    THEN CASE type = "image" -> {"bmp", "eps", "ico", "svg", "tga", "wbmp", "jpg",
                                 "png", "gif"}
           [] type = "compressor" -> {"svg", "jpg", "png"}
           [] type = "pdfs" -> {"jpg", "png", "gif", "docx", "pdf"}
           [] type = "audio" -> {"aac", "aiff", "m4v", "mmf", "wma", "3g2"}
           [] OTHER -> {}
  ELSE IF v = "V2"
    THEN (IF type = "compressor" THEN {"jpg", "png", "svg"} ELSE allFormats(v))
    ELSE CASE type = "image" -> {"bmp", "eps", "ico", "svg", "tga", "wbmp", "jpg",
                                 "png", "gif", "tiff", "webp", "pdf"}
           [] type = "compressor" -> {"jpg", "png", "svg"}
           [] type = "pdfs" -> {"jpg", "png", "gif", "docx", "pdf", "txt", "rtf", "odt"}
           [] type = "audio" -> {"mp3", "wav", "aac", "flac", "ogg", "opus", "wma",
                                 "aiff", "m4v", "mmf", "3g2"}
           [] type = "video" -> videoFormats
           [] type = "document" -> documentFormats
           [] type = "archive" -> archiveFormats
           [] type = "ebook" -> ebookFormats
           [] OTHER -> {}

----------------------------------------------------------------------------
(* Paths.  A path is a record: abs says whether the string is absolute     *)
(* (starts with __dirname), dir is the directory under __dirname, and the  *)
(* file name is built from kind, b, k, ts and ext:                         *)
(*   kind "up":   <32 hex digits drawn by multer for file k of request b>  *)
(*   kind "out":  <that upload name>_<ts>.<ext>                            *)
(*   kind "temp": temp_<ts>.<ext>                                          *)
(* The process runs with cwd = __dirname, so a relative path resolves      *)
(* under __dirname.                                                        *)

NoPath == [abs |-> FALSE, dir |-> "", kind |-> "none", b |-> 0, k |-> 0, ts |-> 0, ext |-> ""]

(* multer({dest: 'uploads/'}): file.path = path.join('uploads/', <hex>), a  *)
(* relative path whose name has no extension.                              *)
UploadPath(b, k) ==
  [abs |-> FALSE, dir |-> "uploads", kind |-> "up", b |-> b, k |-> k, ts |-> 0, ext |-> ""]

(* path.resolve(p) *)
Resolve(p) == [p EXCEPT !.abs = TRUE]

(* path.extname(p).toLowerCase().slice(1) *)
ExtName(p) == p.ext

(* An output named after the upload's own extension: not what the code does *)
OutputPath_keepExt(upload, t, outputExt) ==
  [abs |-> TRUE, dir |-> "converted", kind |-> "out", b |-> upload.b, k |-> upload.k,
   ts |-> t, ext |-> upload.ext]

(* path.resolve(convertedDir, `${basename(file.filename, extname(file.filename))}_${Date.now()}.${outputExt}`) *)
OutputPath(upload, t, outputExt) ==
  [abs |-> TRUE, dir |-> "converted", kind |-> "out", b |-> upload.b, k |-> upload.k,
   ts |-> t, ext |-> outputExt]

(* path.join(convertedDir, `temp_${Date.now()}.pdf`) *)
TempPdfPath(t) ==
  [abs |-> TRUE, dir |-> "converted", kind |-> "temp", b |-> 0, k |-> 0, ts |-> t, ext |-> "pdf"]

(* file.startsWith(uploadsDir), uploadsDir = path.join(__dirname, 'uploads') *)
StartsWithUploadsDir(p) == p.abs /\ p.dir = "uploads"

Exists(p, files) == Resolve(p) \in files

(* Modification times, kept for the files of the converted directory (the  *)
(* only ones whose stat the program reads): of the files that are left,    *)
(* and after a write of p at time t                                        *)
Converted(files) == {q \in files : q.dir = "converted"}

Kept(m, files) == [q \in Converted(files) |-> m[q]]

Stamped(m, p, t) == [q \in DOMAIN m \cup {p} |-> IF q = p THEN t ELSE m[q]]

Max(a, b) == IF a >= b THEN a ELSE b

Range(s) == {s[n] : n \in DOMAIN s}

----------------------------------------------------------------------------
(* Callers of cleanupFiles: 0 is a direct caller (used to exercise the     *)
(* function on its own), 1..NBatches are the /api/convert handlers, the   *)
(* next one is a DELETE /api/delete/:filename request, then a GET          *)
(* /converted/:filename request and the periodic cleanup.                  *)

Direct == 0
Batches == 1..NBatches
Deleter == NBatches + 1
Getter == NBatches + 2
Sweeper == NBatches + 3
Procs == 0..(NBatches + 3)

NoError == <<>>

(* A GET or DELETE request, and a run of the periodic cleanup, not started *)
NoCall == [pc |-> "idle", path |-> NoPath, status |-> 0]
NoSweep ==
  [pc |-> "idle", files |-> <<>>, k |-> 0, at |-> 0, passed |-> {}, aborted |-> FALSE]
NoResponse == [status |-> 0, error |-> <<>>, files |-> <<>>]

IdleCleanup ==
  [pc |-> "idle", paths |-> <<>>, i |-> 0, attempts |-> 0, due |-> 0,
   raised |-> FALSE, log |-> <<>>, waited |-> 0, prev |-> <<>>]

(* The call cleanupFiles(filePaths), up to its first await. *)
StartCleanup(filePaths) ==
  [IdleCleanup EXCEPT !.pc = IF filePaths = <<>> THEN "done" ELSE "access",
                      !.paths = filePaths,
                      !.i = IF filePaths = <<>> THEN 0 ELSE 1]

(* Outcomes of fsPromises.access / fsPromises.unlink that the file system  *)
(* can give whatever the state of the file.                                *)
FsFaults == {"EPERM", "OTHER"}

AccessOutcomes(p) == (IF Exists(p, fs) THEN {"ok"} ELSE {"ENOENT"}) \cup FsFaults
UnlinkOutcomes(p) == (IF Exists(p, fs) THEN {"deleted"} ELSE {"ENOENT"}) \cup FsFaults

(* `for (const filePath of filePaths)`: the next path, or the end *)
NextPath(c) ==
  IF c.i < Len(c.paths)
    THEN [c EXCEPT !.i = @ + 1, !.attempts = 0, !.pc = "access"]
    ELSE [c EXCEPT !.pc = "done"]

(* A catch block that lets an error other than ENOENT and EPERM escape:    *)
(* not what the code does                                                  *)
CleanupCatch_rethrow(c, code) ==
  IF code = "ENOENT" THEN NextPath(c)
  ELSE IF code = "EPERM"
    THEN [c EXCEPT !.attempts = @ + 1, !.pc = "delay", !.due = now + retryDelay]
    ELSE [c EXCEPT !.pc = "done", !.raised = TRUE]

(* A catch block that waits and tries again after any error but ENOENT:    *)
(* not what the code does                                                  *)
CleanupCatch_retryall(c, code) ==
  IF code = "ENOENT" THEN NextPath(c)
  ELSE [c EXCEPT !.attempts = @ + 1, !.pc = "delay", !.due = now + retryDelay]

(* A catch block that takes a missing file for a transient failure: not    *)
(* what the code does                                                      *)
CleanupCatch_enoent(c, code) ==
  IF code \in {"ENOENT", "EPERM"}
    THEN [c EXCEPT !.attempts = @ + 1, !.pc = "delay", !.due = now + retryDelay]
    ELSE NextPath(c)

(* The catch block of cleanupFiles *)
CleanupCatch(c, code) ==
  IF code = "ENOENT" THEN NextPath(c)
  ELSE IF code = "EPERM"
    THEN [c EXCEPT !.attempts = @ + 1, !.pc = "delay", !.due = now + retryDelay]
    ELSE NextPath(c)

Logged(c, code) == [c EXCEPT !.log = Append(@, <<c.i, code>>)]

(* await fsPromises.access(filePath) *)
CleanupAccess(p) ==
  /\ cl[p].pc = "access"
  /\ \E r \in AccessOutcomes(cl[p].paths[cl[p].i]) :
       cl' = [cl EXCEPT ![p] =
                IF r = "ok" THEN [cl[p] EXCEPT !.pc = "unlink"]
                            ELSE CleanupCatch(Logged(cl[p], r), r)]
  /\ UNCHANGED <<variant, now, fs, mtime, dirs, pc, req, idx, tempFiles, outputFiles,
                 outputPath, response, timer, stack, thrown, del, get, sweep, hist>>

(* await fsPromises.unlink(filePath) *)
CleanupUnlink(p) ==
  /\ cl[p].pc = "unlink"
  /\ \E r \in UnlinkOutcomes(cl[p].paths[cl[p].i]) :
       /\ cl' = [cl EXCEPT ![p] =
                   IF r = "deleted" THEN NextPath(Logged(cl[p], r))
                                    ELSE CleanupCatch(Logged(cl[p], r), r)]
       /\ fs' = IF r = "deleted" THEN fs \ {Resolve(cl[p].paths[cl[p].i])} ELSE fs
  /\ mtime' = Kept(mtime, fs')
  /\ UNCHANGED <<variant, now, dirs, pc, req, idx, tempFiles, outputFiles,
                 outputPath, response, timer, stack, thrown, del, get, sweep, hist>>

(* A loop whose first attempt does not count toward the limit: not what    *)
(* the code does                                                           *)
AfterDelay_extra(c) ==
  IF c.attempts <= maxRetries
    THEN [c EXCEPT !.pc = "access", !.waited = @ + retryDelay]
    ELSE NextPath([c EXCEPT !.waited = @ + retryDelay])

(* A loop that ends the whole call once a path is given up: not what the   *)
(* code does                                                               *)
AfterDelay_stop(c) ==
  IF c.attempts < maxRetries
    THEN [c EXCEPT !.pc = "access", !.waited = @ + retryDelay]
    ELSE [c EXCEPT !.pc = "done", !.waited = @ + retryDelay]

(* A loop that tries again after every EPERM: not what the code does *)
AfterDelay_again(c) == [c EXCEPT !.pc = "access", !.waited = @ + retryDelay]

(* await new Promise(resolve => setTimeout(resolve, retryDelay)), then the *)
(* loop test `attempts < maxRetries`                                       *)
AfterDelay(c) ==
  IF c.attempts < maxRetries
    THEN [c EXCEPT !.pc = "access", !.waited = @ + retryDelay]
    ELSE NextPath([c EXCEPT !.waited = @ + retryDelay])

CleanupDelay(p) ==
  /\ cl[p].pc = "delay"
  /\ now' = Max(now, cl[p].due)
  /\ cl' = [cl EXCEPT ![p] = AfterDelay(cl[p])]
  /\ UNCHANGED <<variant, fs, mtime, dirs, pc, req, idx, tempFiles, outputFiles,
                 outputPath, response, timer, stack, thrown, del, get, sweep, hist>>

(* The clock moves on between two steps. *)
Tick ==
  /\ now < MaxMs
  /\ now' = now + 1
  /\ UNCHANGED <<variant, fs, mtime, dirs, pc, req, idx, tempFiles, outputFiles,
                 outputPath, response, timer, stack, thrown, cl, del, get, sweep, hist>>

----------------------------------------------------------------------------
(* Conversion helpers.  A call is a frame on the handler's stack; its body *)
(* is the sequence of awaited operations the source runs for its           *)
(* arguments.                                                              *)

Ext(tool, i, o) == [op |-> "ext", name |-> tool, in |-> i, out |-> o, fmt |-> ""]
Load(tool, i) == [op |-> "load", name |-> tool, in |-> i, out |-> NoPath, fmt |-> ""]
Call(fn, i, o, f) == [op |-> "call", name |-> fn, in |-> i, out |-> o, fmt |-> f]
Throw(msg) == [op |-> "throw", name |-> msg, in |-> NoPath, out |-> NoPath, fmt |-> ""]
Rename(i, o) == [op |-> "rename", name |-> "rename", in |-> i, out |-> o, fmt |-> ""]
Unlink(p) == [op |-> "unlink", name |-> "unlink", in |-> p, out |-> NoPath, fmt |-> ""]
Push(p) == [op |-> "push", name |-> "tempFiles.push", in |-> p, out |-> NoPath, fmt |-> ""]

(* path.join(convertedDir, `${path.basename(inputPath, '.pdf')}.${format}`) *)
GeneratedPath(i, f) == [i EXCEPT !.abs = TRUE, !.dir = "converted", !.ext = f]

(* Whether the call names a tempPdfPath = temp_<Date.now()>.pdf *)
NamesTemp(v, fn, inExt, f) ==
  CASE fn = "convertImage" ->
         \/ inExt \notin imageFormats /\ inExt \in documentFormats
         \/ f \notin imageFormats /\ f = "docx"
    [] fn = "convertPdf" -> inExt # "pdf"
    [] fn = "convertDocument" ->
         IF v = "V2"
           THEN f \in documentFormats /\ inExt # "pdf"
                  /\ inExt \in imageFormats \cup {"docx", "txt", "rtf", "odt"}
           ELSE inExt \in imageFormats
    [] OTHER -> FALSE

convertImageV2(i, o, f, t) ==
  IF ExtName(i) \notin imageFormats /\ ExtName(i) \in documentFormats
    THEN <<Call("convertDocument", i, t, "pdf"), Call("convertImage", t, o, f)>>
  ELSE IF f \in imageFormats THEN <<Ext("sharp", i, o)>>
  ELSE IF f = "pdf" THEN <<Load("aspose.Document", i), Ext("aspose.save", i, o)>>
  ELSE IF f = "docx"
    THEN <<Load("aspose.Document", i), Ext("aspose.save", i, t),
           Call("convertPdf", t, o, "docx")>>
  ELSE <<Throw("Unsupported image output format")>>

convertPdfV2(i, o, f, t) ==
  IF ExtName(i) # "pdf"
    THEN <<Call("convertDocument", i, t, "pdf"), Call("convertPdf", t, o, f)>>
  ELSE IF f \in {"jpg", "png", "gif"} \/ f = "docx"
    THEN <<Load("aspose.Document", i), Ext("aspose.save", i, o)>>
  ELSE <<Load("aspose.Document", i), Throw("Unsupported PDF output format")>>

convertDocumentV2(i, o, f, t) ==
  IF f \notin documentFormats THEN <<Throw("Unsupported output document format")>>
  ELSE IF ExtName(i) = "pdf" THEN <<Call("convertPdf", i, o, f)>>
  ELSE IF ExtName(i) \in imageFormats
    THEN <<Call("convertImage", i, t, "pdf"), Call("convertPdf", t, o, f)>>
  ELSE IF ExtName(i) \in {"docx", "txt", "rtf", "odt"}
    THEN <<Call("convertEbook", i, t, "pdf"), Call("convertPdf", t, o, f)>>
  ELSE <<Throw("Unsupported document input format")>>

convertImageV4(i, o, f, t) ==
  IF ExtName(i) \notin imageFormats /\ ExtName(i) \in documentFormats
    THEN <<Call("convertDocument", i, t, "pdf"), Call("convertImage", t, o, f), Unlink(t)>>
  ELSE IF f \in imageFormats THEN <<Ext("sharp", i, o)>>
  ELSE IF f = "pdf" THEN <<Ext("convertImageToPDF", i, o)>>
  ELSE IF f = "docx"
    THEN <<Ext("convertImageToPDF", i, t), Ext("libre.convert", t, o), Unlink(t)>>
  ELSE <<Throw("Unsupported image output format")>>

convertPdfV4(i, o, f, t) ==
  IF ExtName(i) # "pdf"
    THEN <<Call("convertDocument", i, t, "pdf"), Call("convertPdf", t, o, f), Unlink(t)>>
  ELSE IF f = "gif"
    THEN <<Load("validatePDF", i), Ext("pdftoppm", i, GeneratedPath(i, "png")),
           Ext("convertPngToGif", GeneratedPath(i, "png"), o),
           Unlink(GeneratedPath(i, "png"))>>
  ELSE IF f \in {"jpg", "png"}
    THEN <<Load("validatePDF", i), Ext("pdftoppm", i, GeneratedPath(i, f)),
           Rename(GeneratedPath(i, f), o)>>
  ELSE IF f = "docx" THEN <<Ext("libre.convert", i, o)>>
  ELSE <<Throw("Unsupported PDF output format")>>

convertDocumentV4(i, o, f, t) ==
  IF ExtName(i) \in imageFormats
    THEN <<Ext("convertImageToPDF", i, t), Call("convertDocument", t, o, f), Unlink(t)>>
  ELSE IF f \notin documentFormats THEN <<Throw("Unsupported output document format")>>
  ELSE <<Ext("libre.convert", i, o)>>

convertMedia(i, o, f) == <<Ext("ffmpeg", i, o)>>

convertArchive(i, o, f) ==
  IF f = "zip" \/ f = "7z" THEN <<Ext("sevenZip.add", i, o)>>
  ELSE <<Throw("Unsupported archive format")>>

convertEbook(i, o, f) == <<Ext("ebook-convert", i, o)>>

convertCompressor(i, o, f) ==
  IF f = "svg" THEN <<Ext("compressSvg", i, o)>>
  ELSE IF f \in {"jpg", "png"} THEN <<Ext("sharp", i, o)>>
  ELSE <<Throw("Unsupported compressor output format")>>

(* The cases of `switch (conversionType)` in the handler of                *)
(* src/unnamed/part_000 1-491, which converts in place                     *)
caseImage(i, o, f) ==
  IF f = "pdf" THEN <<Ext("convertImageToPDF", i, o)>>
               ELSE <<Ext("converter.convertImage", i, o)>>

caseCompressor(i, o, f) == <<Ext("converter.compressSvg", i, o)>>

casePdfs(i, o, f) ==
  IF f = "gif"
    THEN <<Ext("pdftoppm", i, GeneratedPath(i, "png")),
           Ext("convertPngToGif", GeneratedPath(i, "png"), o),
           Push(GeneratedPath(i, "png"))>>
  ELSE IF f \in {"jpg", "png"}
    THEN <<Ext("pdftoppm", i, GeneratedPath(i, f)), Rename(GeneratedPath(i, f), o)>>
  ELSE IF f = "docx" THEN <<Ext("converter.pdfToWord", i, o)>>
  ELSE <<>>

caseAudio(i, o, f) == <<Ext("converter.convertAudio", i, o)>>

(* The body of frame fr under server variant v *)
Body(v, fr) ==
  CASE fr.fn = "caseImage" -> caseImage(fr.in, fr.out, fr.fmt)
    [] fr.fn = "caseCompressor" -> caseCompressor(fr.in, fr.out, fr.fmt)
    [] fr.fn = "casePdfs" -> casePdfs(fr.in, fr.out, fr.fmt)
    [] fr.fn = "caseAudio" -> caseAudio(fr.in, fr.out, fr.fmt)
    [] fr.fn = "convertImage" ->
         IF v = "V2" THEN convertImageV2(fr.in, fr.out, fr.fmt, fr.temp)
                     ELSE convertImageV4(fr.in, fr.out, fr.fmt, fr.temp)
    [] fr.fn = "convertPdf" ->
         IF v = "V2" THEN convertPdfV2(fr.in, fr.out, fr.fmt, fr.temp)
                     ELSE convertPdfV4(fr.in, fr.out, fr.fmt, fr.temp)
    [] fr.fn = "convertDocument" ->
         IF v = "V2" THEN convertDocumentV2(fr.in, fr.out, fr.fmt, fr.temp)
                     ELSE convertDocumentV4(fr.in, fr.out, fr.fmt, fr.temp)
    [] fr.fn = "convertMedia" -> convertMedia(fr.in, fr.out, fr.fmt)
    [] fr.fn = "convertArchive" -> convertArchive(fr.in, fr.out, fr.fmt)
    [] fr.fn = "convertEbook" -> convertEbook(fr.in, fr.out, fr.fmt)
    [] fr.fn = "convertCompressor" -> convertCompressor(fr.in, fr.out, fr.fmt)

(* What the helper does with an error, and on the way out:                 *)
(*   "finally": catch wraps the message, finally runs cleanupFiles(tempFiles) *)
(*   "unlink":  catch unlinks tempPdfPath, then rethrows                   *)
(*   "wrap":    catch rethrows under a new message                         *)
(*   "rethrow": catch logs and rethrows, or there is no catch              *)
Policy(v, fr) ==
  IF v = "V3"
    THEN IF fr.fn = "casePdfs" /\ fr.fmt \in {"jpg", "png", "gif"} THEN "wrap" ELSE "rethrow"
  ELSE IF fr.fn \in {"convertImage", "convertPdf", "convertDocument"}
    THEN IF v = "V2" THEN "finally"
         ELSE IF fr.fn = "convertImage" /\ fr.temp # NoPath
                   /\ ~(ExtName(fr.in) \notin imageFormats /\ ExtName(fr.in) \in documentFormats)
                THEN "unlink"
         ELSE IF fr.fn = "convertPdf" /\ ExtName(fr.in) = "pdf" /\ fr.fmt \in {"jpg", "png", "gif"}
                THEN "wrap"
         ELSE "rethrow"
    ELSE "rethrow"

Wrapper(fn) ==
  CASE fn = "convertImage" -> "Image conversion failed"
    [] fn = "convertPdf" -> "PDF conversion failed"
    [] fn = "convertDocument" -> "Document conversion failed"
    [] OTHER -> ""

(* A new frame: the call, up to its first await *)
Frame(v, fn, i, o, f, t) ==
  [fn |-> fn, in |-> i, out |-> o, fmt |-> f, ip |-> 1, fin |-> FALSE,
   temp |-> IF NamesTemp(v, fn, ExtName(i), f) THEN TempPdfPath(t) ELSE NoPath]

----------------------------------------------------------------------------
(* Steps of the conversion helpers of handler b *)

Top(b) == stack[b][Len(stack[b])]

Running(b) ==
  /\ pc[b] = "converting"
  /\ stack[b] # <<>>
  /\ thrown[b] = NoError
  /\ ~Top(b).fin
  /\ Top(b).ip <= Len(Body(variant, Top(b)))

CurrentOp(b) == Body(variant, Top(b))[Top(b).ip]

Advance(b) == [stack EXCEPT ![b][Len(stack[b])].ip = @ + 1]

Invoked(b, name) ==
  [hist EXCEPT ![b].invoked =
     Append(@, [k |-> idx[b], name |-> name, op |-> CurrentOp(b).op,
                in |-> ExtName(CurrentOp(b).in), out |-> ExtName(CurrentOp(b).out)])]

(* An awaited external converter (or loader) returns or fails.  It fails   *)
(* when its input file is missing.                                         *)
ConvExt(b) ==
  /\ Running(b)
  /\ CurrentOp(b).op \in {"ext", "load"}
  /\ \E ok \in (IF Exists(CurrentOp(b).in, fs) THEN BOOLEAN ELSE {FALSE}) :
       IF ok
         THEN /\ fs' = IF CurrentOp(b).op = "ext" THEN fs \cup {CurrentOp(b).out} ELSE fs
              /\ stack' = Advance(b)
              /\ thrown' = thrown
         ELSE /\ thrown' = [thrown EXCEPT ![b] = <<CurrentOp(b).name>>]
              /\ UNCHANGED <<fs, stack>>
  /\ mtime' = IF stack' # stack /\ CurrentOp(b).op = "ext"
                THEN Stamped(mtime, CurrentOp(b).out, now)
                ELSE mtime
  /\ hist' = Invoked(b, CurrentOp(b).name)
  /\ UNCHANGED <<variant, now, dirs, pc, req, idx, tempFiles, outputFiles,
                 outputPath, response, timer, cl, del, get, sweep>>

(* if (await access(generatedPath)) await rename(generatedPath, outputPath) *)
(* else throw                                                              *)
ConvRename(b) ==
  /\ Running(b)
  /\ CurrentOp(b).op = "rename"
  /\ IF Exists(CurrentOp(b).in, fs)
       THEN /\ fs' = (fs \ {CurrentOp(b).in}) \cup {CurrentOp(b).out}
            /\ stack' = Advance(b)
            /\ thrown' = thrown
       ELSE /\ thrown' = [thrown EXCEPT ![b] = <<"PDF to image output not found">>]
            /\ UNCHANGED <<fs, stack>>
  /\ mtime' = IF stack' # stack
                THEN Kept(Stamped(mtime, CurrentOp(b).out, mtime[CurrentOp(b).in]), fs')
                ELSE mtime
  /\ UNCHANGED <<variant, now, dirs, pc, req, idx, tempFiles, outputFiles,
                 outputPath, response, timer, cl, del, get, sweep, hist>>

(* await fsPromises.unlink(p).catch(err => console.error(..)) *)
UnlinkSwallowed(p, files) == {files \ {Resolve(p)}, files}

ConvUnlink(b) ==
  /\ Running(b)
  /\ CurrentOp(b).op = "unlink"
  /\ fs' \in UnlinkSwallowed(CurrentOp(b).in, fs)
  /\ mtime' = Kept(mtime, fs')
  /\ stack' = Advance(b)
  /\ UNCHANGED <<variant, now, dirs, pc, req, idx, tempFiles, outputFiles,
                 outputPath, response, timer, thrown, cl, del, get, sweep, hist>>

(* tempFiles.push(tempPngPath) *)
ConvPush(b) ==
  /\ Running(b)
  /\ CurrentOp(b).op = "push"
  /\ tempFiles' = [tempFiles EXCEPT ![b] = Append(@, CurrentOp(b).in)]
  /\ stack' = Advance(b)
  /\ UNCHANGED <<variant, now, fs, mtime, dirs, pc, req, idx, outputFiles,
                 outputPath, response, timer, thrown, cl, del, get, sweep, hist>>

(* await convertX(..): the nested call, up to its first await *)
ConvCall(b) ==
  /\ Running(b)
  /\ CurrentOp(b).op = "call"
  /\ Len(stack[b]) < MaxDepth
  /\ stack' = [stack EXCEPT ![b] =
                 Append(@, Frame(variant, CurrentOp(b).name, CurrentOp(b).in,
                                 CurrentOp(b).out, CurrentOp(b).fmt, now))]
  /\ UNCHANGED <<variant, now, fs, mtime, dirs, pc, req, idx, tempFiles, outputFiles,
                 outputPath, response, timer, thrown, cl, del, get, sweep, hist>>

(* throw new Error(`Unsupported ...`) *)
ConvThrow(b) ==
  /\ Running(b)
  /\ CurrentOp(b).op = "throw"
  /\ thrown' = [thrown EXCEPT ![b] = <<CurrentOp(b).name>>]
  /\ UNCHANGED <<variant, now, fs, mtime, dirs, pc, req, idx, tempFiles, outputFiles,
                 outputPath, response, timer, stack, cl, del, get, sweep, hist>>

(* The top call is over: its body ran to the end, or an error reached it *)
Over(b) ==
  /\ pc[b] = "converting"
  /\ stack[b] # <<>>
  /\ thrown[b] # NoError \/ Top(b).ip > Len(Body(variant, Top(b)))

(* The error as the call passes it on *)
PassedOn(v, fr, err) ==
  IF err = NoError THEN NoError
  ELSE IF Policy(v, fr) = "finally" THEN <<Wrapper(fr.fn)>> \o err
  ELSE IF Policy(v, fr) = "wrap" THEN <<"PDF to image conversion failed">> \o err
  ELSE err

(* The call returns to (or throws into) its caller.  hist keeps, for a     *)
(* call that named a temp file, whether that file is left on disk.         *)
Popped(b, files) ==
  /\ stack' = [stack EXCEPT ![b] =
                 IF Len(@) > 1 /\ thrown[b] = NoError
                   THEN [SubSeq(@, 1, Len(@) - 1) EXCEPT ![Len(@) - 1].ip = @ + 1]
                   ELSE SubSeq(@, 1, Len(@) - 1)]
  /\ thrown' = [thrown EXCEPT ![b] = PassedOn(variant, Top(b), @)]
  /\ hist' = [hist EXCEPT ![b].finished =
                IF Top(b).temp = NoPath THEN @
                ELSE @ \cup {[temp |-> Top(b).temp, left |-> Top(b).temp \in files,
                              threw |-> thrown[b] # NoError]}]

(* A helper without cleanup on the way out: return, or (re)throw *)
ConvReturn(b) ==
  /\ Over(b)
  /\ Policy(variant, Top(b)) \in {"rethrow", "wrap"}
       \/ (Policy(variant, Top(b)) = "unlink" /\ thrown[b] = NoError)
  /\ Popped(b, fs)
  /\ UNCHANGED <<variant, now, fs, mtime, dirs, pc, req, idx, tempFiles, outputFiles,
                 outputPath, response, timer, cl, del, get, sweep>>

FrameTempFiles(fr) == IF fr.temp = NoPath THEN <<>> ELSE <<fr.temp>>

(* finally { await cleanupFiles(tempFiles) }, or the catch that unlinks    *)
(* tempPdfPath before it rethrows                                          *)
ConvFinally(b) ==
  /\ Over(b)
  /\ ~Top(b).fin
  /\ Policy(variant, Top(b)) = "finally"
       \/ (Policy(variant, Top(b)) = "unlink" /\ thrown[b] # NoError)
  /\ IF Policy(variant, Top(b)) = "finally"
       THEN /\ cl' = [cl EXCEPT ![b] = StartCleanup(FrameTempFiles(Top(b)))]
            /\ fs' = fs
       ELSE /\ fs' \in UnlinkSwallowed(Top(b).temp, fs)
            /\ cl' = [cl EXCEPT ![b] = StartCleanup(<<>>)]
  /\ mtime' = Kept(mtime, fs')
  /\ stack' = [stack EXCEPT ![b][Len(stack[b])].fin = TRUE]
  /\ UNCHANGED <<variant, now, dirs, pc, req, idx, tempFiles, outputFiles,
                 outputPath, response, timer, thrown, del, get, sweep, hist>>

(* A helper whose failed cleanup becomes its error: not what the code does *)
ConvAfterFinally_surface(b) ==
  /\ Over(b)
  /\ Top(b).fin
  /\ cl[b].pc = "done"
  /\ IF \E n \in DOMAIN cl[b].log : cl[b].log[n][2] \in FsFaults
       THEN /\ stack' = [stack EXCEPT ![b] = SubSeq(@, 1, Len(@) - 1)]
            /\ thrown' = [thrown EXCEPT ![b] = <<"Cleanup failed">>]
            /\ hist' = hist
       ELSE Popped(b, fs)
  /\ cl' = [cl EXCEPT ![b] = IdleCleanup]
  /\ UNCHANGED <<variant, now, fs, mtime, dirs, pc, req, idx, tempFiles, outputFiles,
                 outputPath, response, timer, del, get, sweep>>

(* The cleanup of the finally block has returned: the call returns or      *)
(* throws as it would have                                                 *)
ConvAfterFinally(b) ==
  /\ Over(b)
  /\ Top(b).fin
  /\ cl[b].pc = "done"
  /\ Popped(b, fs)
  /\ cl' = [cl EXCEPT ![b] = IdleCleanup]
  /\ UNCHANGED <<variant, now, fs, mtime, dirs, pc, req, idx, tempFiles, outputFiles,
                 outputPath, response, timer, del, get, sweep>>

----------------------------------------------------------------------------
(* POST /api/convert *)

NoRequest == [files |-> <<>>, formats |-> <<>>, json |-> TRUE]
NoTimer == [armed |-> FALSE, due |-> 0]
NoHist == [invoked |-> <<>>, expired |-> {}, finished |-> {}, failed |-> {}]

(* Format descriptors and original extensions the requests are drawn from; *)
(* "" stands for a missing field.                                          *)
Descriptors ==
  { [type |-> "image", target |-> "jpg"],
    [type |-> "pdfs", target |-> "png"],
    [type |-> "pdfs", target |-> "pdf"],
    [type |-> "bogus", target |-> "jpg"] }

OriginalExt == "pdf"

Files(n) == [k \in 1..n |-> OriginalExt]

(* Requests: n files with a descriptor each; n files with m # n           *)
(* descriptors; no file and no descriptor; a formats field that is not     *)
(* JSON.                                                                   *)
Mismatched(n) == [k \in 1..n |-> [type |-> "image", target |-> "jpg"]]

Requests ==
  {[files |-> Files(Len(d)), formats |-> d, json |-> TRUE] :
     d \in UNION {[1..n -> Descriptors] : n \in 1..MaxFiles}}
  \cup {[files |-> Files(c[1]), formats |-> Mismatched(c[2]), json |-> TRUE] :
          c \in {x \in (0..MaxFiles) \X (0..MaxFiles) : x[1] # x[2]}}
  \cup {[files |-> Files(n), formats |-> <<>>, json |-> j] : n \in {0}, j \in BOOLEAN}
  \cup {[files |-> Files(n), formats |-> <<>>, json |-> FALSE] : n \in {1}}

(* Requests to the server of src/unnamed/part_000 1-491, whose descriptors *)
(* carry a subSection                                                      *)
DescriptorsV3 ==
  { [type |-> "pdfs", target |-> "gif", subSection |-> "pdf"],
    [type |-> "pdfs", target |-> "png", subSection |-> "pdf"],
    [type |-> "pdfs", target |-> "pdf", subSection |-> "pdf"],
    [type |-> "image", target |-> "jpg", subSection |-> "image"],
    [type |-> "pdfs", target |-> "gif"] }

RequestsV3 ==
  {[files |-> Files(Len(d)), formats |-> d, json |-> TRUE] :
     d \in UNION {[1..n -> DescriptorsV3] : n \in 1..MaxFiles}}

Uploaded == Cardinality({p \in fs : p.kind = "up"})

(* formatInfo.target?.toLowerCase().split(' ')[0]; the targets drawn are   *)
(* lower-case single words                                                 *)
OutputExt(formatInfo) == formatInfo.target

(* path.extname(file.originalname).toLowerCase().slice(1) || 'unknown' *)
InputExt(originalExt) == IF originalExt = "" THEN "unknown" ELSE originalExt

(* formatInfo.subSection, "" when the field is missing *)
SubSection(formatInfo) ==
  IF "subSection" \in DOMAIN formatInfo THEN formatInfo.subSection ELSE ""

(* The checks of one (file, format) entry; "" when they all pass *)
ValidationError(v, inputExt, formatInfo) ==
  IF v = "V3" /\ (formatInfo.type = "" \/ OutputExt(formatInfo) = ""
                    \/ SubSection(formatInfo) = "")
    THEN "Invalid format information: type, subSection, and target are required."
  ELSE IF formatInfo.type = "" \/ OutputExt(formatInfo) = ""
    THEN "Invalid format information: type and target are required."
  ELSE IF formatInfo.type \notin (IF v = "V3" THEN conversionTypesV3 ELSE conversionTypes)
    THEN "Unsupported conversion type"
  ELSE IF OutputExt(formatInfo) \notin supportedFormats(v, formatInfo.type)
    THEN "Unsupported output format"
  ELSE IF inputExt \notin allFormats(v)
    THEN "Unsupported input format"
  ELSE ""

(* const outputType = [...].includes(outputExt) ? 'image' : ... : formatInfo.type *)
outputType(outputExt, type) ==
  IF outputExt \in imageFormats THEN "image"
  ELSE IF outputExt \in documentFormats THEN "document"
  ELSE IF outputExt \in audioFormats THEN "audio"
  ELSE IF outputExt \in videoFormats THEN "video"
  ELSE IF outputExt \in archiveFormats THEN "archive"
  ELSE IF outputExt \in ebookFormats THEN "ebook"
  ELSE type

(* A switch on the declared type in every server: not what the code of    *)
(* src/server.js 382-855 does                                              *)
Dispatch_bytype(v, type, outputExt) ==
  CASE type = "image" -> "convertImage"
    [] type = "compressor" -> IF v = "V2" THEN "convertImage" ELSE "convertCompressor"
    [] type = "document" -> "convertDocument"
    [] type = "pdfs" -> "convertPdf"
    [] type \in {"audio", "video"} -> "convertMedia"
    [] type = "archive" -> "convertArchive"
    [] type = "ebook" -> "convertEbook"
    [] OTHER -> ""

(* switch (outputType) { .. } in V2, switch (conversionType) { .. } in V3  *)
(* and V4: the helper called (in V3, the case run), "" for the default     *)
(* case                                                                    *)
Dispatch(v, type, outputExt) ==
  LET sel == IF v = "V2" THEN outputType(outputExt, type) ELSE type IN
  CASE v = "V3" /\ sel = "image" -> "caseImage"
    [] v = "V3" /\ sel = "compressor" -> "caseCompressor"
    [] v = "V3" /\ sel = "pdfs" -> "casePdfs"
    [] v = "V3" /\ sel = "audio" -> "caseAudio"
    [] v = "V3" -> ""
    [] sel = "image" -> "convertImage"
    [] sel = "compressor" -> IF v = "V2" THEN "convertImage" ELSE "convertCompressor"
    [] sel = "document" -> "convertDocument"
    [] sel = "pdfs" -> "convertPdf"
    [] sel \in {"audio", "video"} -> "convertMedia"
    [] sel = "archive" -> "convertArchive"
    [] sel = "ebook" -> "convertEbook"
    [] OTHER -> ""

(* V3 and V4 check the content of the upload before some conversions *)
PreValidates(v, type, inputExt, outputExt) ==
  \/ v \in {"V3", "V4"} /\ type = "pdfs" /\ inputExt = "pdf"
  \/ v = "V4" /\ type = "image" /\ outputExt = "pdf"

Respond(b, status, error, files) ==
  response' = [response EXCEPT ![b] = [status |-> status, error |-> error, files |-> files]]

(* The request arrives: multer has stored its files; the handler runs to   *)
(* `await ensureDirectories()`.                                            *)
Receive(b) ==
  /\ pc[b] = "idle"
  /\ \A a \in Batches : a < b => pc[a] # "idle"
  /\ \E r \in (IF variant = "V3" THEN RequestsV3 ELSE Requests) :
       /\ Uploaded + Len(r.files) <= MaxUploads
       /\ req' = [req EXCEPT ![b] = r]
       /\ fs' = fs \cup {Resolve(UploadPath(b, k)) : k \in 1..Len(r.files)}
       /\ tempFiles' = [tempFiles EXCEPT ![b] = [k \in 1..Len(r.files) |-> UploadPath(b, k)]]
  /\ mtime' = mtime
  /\ pc' = [pc EXCEPT ![b] = "ensure"]
  /\ UNCHANGED <<variant, now, dirs, idx, outputFiles, outputPath, response,
                 timer, stack, thrown, cl, del, get, sweep, hist>>

(* fsPromises.mkdir(dir, { recursive: true }) for both directories *)
ensureDirectories(d) == d \cup {"uploads", "converted"}

(* await ensureDirectories(), then the checks before the loop *)
(* The checks without the comparison of the two counts: not what the code  *)
(* does                                                                    *)
CountError_nomismatch(r) ==
  IF ~r.json THEN <<"Invalid formats data. Please provide valid JSON.">>
  ELSE IF Len(r.files) = 0 THEN <<"No files uploaded.">>
  ELSE IF Len(r.files) > 5 THEN <<"Maximum 5 files allowed.">>
  ELSE NoError

CountError(r) ==
  IF ~r.json THEN <<"Invalid formats data. Please provide valid JSON.">>
  ELSE IF Len(r.files) = 0 THEN <<"No files uploaded.">>
  ELSE IF Len(r.files) > 5 THEN <<"Maximum 5 files allowed.">>
  ELSE IF Len(r.files) # Len(r.formats)
    THEN <<"Mismatch between files and formats", Len(r.files), Len(r.formats)>>
  ELSE NoError

H_Checks(b) ==
  /\ pc[b] = "ensure"
  /\ dirs' = ensureDirectories(dirs)
  /\ IF CountError(req[b]) # NoError
       THEN /\ Respond(b, 400, CountError(req[b]), <<>>)
            /\ pc' = [pc EXCEPT ![b] = "finally"]
            /\ idx' = idx
       ELSE /\ idx' = [idx EXCEPT ![b] = 1]
            /\ pc' = [pc EXCEPT ![b] = "validate"]
            /\ response' = response
  /\ UNCHANGED <<variant, now, fs, mtime, req, tempFiles, outputFiles, outputPath,
                 timer, stack, thrown, cl, del, get, sweep, hist>>

(* The head of the loop body: the checks of entry i, then outputPath, up   *)
(* to `await fsPromises.access(inputPath)`.  A throw (reading a field of   *)
(* a missing formats[i] included) lands in the outer catch, which answers  *)
(* 500.                                                                    *)
H_Validate(b) ==
  /\ pc[b] = "validate"
  /\ LET err == IF idx[b] \notin DOMAIN req[b].formats
                  THEN "Cannot read properties of undefined"
                  ELSE ValidationError(variant, InputExt(req[b].files[idx[b]]),
                                       req[b].formats[idx[b]]) IN
       IF err # ""
         THEN /\ Respond(b, 500, <<err>>, <<>>)
              /\ pc' = [pc EXCEPT ![b] = "finally"]
              /\ outputPath' = outputPath
         ELSE /\ outputPath' = [outputPath EXCEPT ![b] =
                   OutputPath(UploadPath(b, idx[b]), now, OutputExt(req[b].formats[idx[b]]))]
              /\ pc' = [pc EXCEPT ![b] = "access"]
              /\ response' = response
  /\ UNCHANGED <<variant, now, fs, mtime, dirs, req, idx, tempFiles, outputFiles,
                 timer, stack, thrown, cl, del, get, sweep, hist>>

(* setTimeout(.., conversionTimeout), then the switch: the helper is       *)
(* called with inputPath = path.resolve(file.path)                         *)
Dispatched(b) ==
  LET fn == Dispatch(variant, req[b].formats[idx[b]].type, OutputExt(req[b].formats[idx[b]])) IN
  /\ timer' = [timer EXCEPT ![b] = [armed |-> TRUE, due |-> now + conversionTimeout]]
  /\ pc' = [pc EXCEPT ![b] = "converting"]
  /\ IF fn = ""
       THEN /\ thrown' = [thrown EXCEPT ![b] = <<"Unsupported conversion type">>]
            /\ stack' = stack
       ELSE /\ stack' = [stack EXCEPT ![b] =
                 <<Frame(variant, fn, Resolve(UploadPath(b, idx[b])), outputPath[b],
                         OutputExt(req[b].formats[idx[b]]), now)>>]
            /\ thrown' = thrown

(* await fsPromises.access(inputPath) *)
H_Access(b) ==
  /\ pc[b] = "access"
  /\ IF ~Exists(UploadPath(b, idx[b]), fs)
       THEN /\ Respond(b, 500, <<"Input file not found">>, <<>>)
            /\ pc' = [pc EXCEPT ![b] = "finally"]
            /\ UNCHANGED <<timer, stack, thrown>>
       ELSE IF PreValidates(variant, req[b].formats[idx[b]].type,
                            InputExt(req[b].files[idx[b]]), OutputExt(req[b].formats[idx[b]]))
         THEN /\ pc' = [pc EXCEPT ![b] = "prevalidate"]
              /\ UNCHANGED <<response, timer, stack, thrown>>
         ELSE /\ Dispatched(b)
              /\ response' = response
  /\ UNCHANGED <<variant, now, fs, mtime, dirs, req, idx, tempFiles, outputFiles,
                 outputPath, cl, del, get, sweep, hist>>

(* await validatePDF(inputPath) / await validateImage(inputPath) *)
H_PreValidate(b) ==
  /\ pc[b] = "prevalidate"
  /\ \E valid \in BOOLEAN :
       IF valid
         THEN /\ Dispatched(b)
              /\ response' = response
         ELSE /\ Respond(b, 500, <<"Invalid or corrupted file">>, <<>>)
              /\ pc' = [pc EXCEPT ![b] = "finally"]
              /\ UNCHANGED <<timer, stack, thrown>>
  /\ UNCHANGED <<variant, now, fs, mtime, dirs, req, idx, tempFiles, outputFiles,
                 outputPath, cl, del, get, sweep, hist>>

(* The timer of the current file expires while its conversion is awaited   *)
(* (a timer callback runs only when the handler is parked on an await):    *)
(* controller.abort(new Error('Conversion timed out')).  Nothing listens   *)
(* to controller.signal.                                                   *)
Expiries == UNION {{<<b, k>> : k \in hist[b].expired} : b \in Batches}

TimerFires(b) ==
  /\ Running(b)
  /\ Cardinality(Expiries) < MaxExpiries
  /\ timer[b].armed
  /\ now' = Max(now, timer[b].due)
  /\ timer' = [timer EXCEPT ![b] = NoTimer]
  /\ hist' = [hist EXCEPT ![b].expired = @ \cup {idx[b]}]
  /\ UNCHANGED <<variant, fs, mtime, dirs, pc, req, idx, tempFiles, outputFiles,
                 outputPath, response, stack, thrown, cl, del, get, sweep>>

Failed(b) ==
  [hist EXCEPT ![b].failed = @ \cup {[k |-> idx[b], calls |-> Len(hist[b].invoked)]}]

(* A loop that goes on to the next file after a failure: not what the code *)
(* does                                                                    *)
H_AfterConvert_continue(b) ==
  /\ pc[b] = "converting"
  /\ stack[b] = <<>>
  /\ timer' = [timer EXCEPT ![b] = NoTimer]
  /\ thrown' = [thrown EXCEPT ![b] = NoError]
  /\ IF thrown[b] # NoError
       THEN /\ hist' = Failed(b)
            /\ UNCHANGED <<outputFiles, tempFiles>>
       ELSE /\ outputFiles' = [outputFiles EXCEPT ![b] = Append(@, outputPath[b])]
            /\ tempFiles' = [tempFiles EXCEPT ![b] = Append(@, outputPath[b])]
            /\ hist' = hist
  /\ IF idx[b] < Len(req[b].files)
       THEN /\ idx' = [idx EXCEPT ![b] = @ + 1]
            /\ pc' = [pc EXCEPT ![b] = "validate"]
            /\ response' = response
       ELSE /\ IF thrown[b] # NoError
                 THEN Respond(b, 500, thrown[b], <<>>)
                 ELSE Respond(b, 200, NoError, Append(outputFiles[b], outputPath[b]))
            /\ pc' = [pc EXCEPT ![b] = "finally"]
            /\ idx' = idx
  /\ UNCHANGED <<variant, now, fs, mtime, dirs, req, outputPath, stack, cl, del, get, sweep>>

(* The helper has returned or thrown: finally { clearTimeout }, then the   *)
(* pushes and the next entry, or res.json, or the outer catch              *)
H_AfterConvert(b) ==
  /\ pc[b] = "converting"
  /\ stack[b] = <<>>
  /\ timer' = [timer EXCEPT ![b] = NoTimer]
  /\ thrown' = [thrown EXCEPT ![b] = NoError]
  /\ IF thrown[b] # NoError
       THEN /\ Respond(b, 500, thrown[b], <<>>)
            /\ pc' = [pc EXCEPT ![b] = "finally"]
            /\ hist' = Failed(b)
            /\ UNCHANGED <<idx, outputFiles, tempFiles>>
       ELSE /\ outputFiles' = [outputFiles EXCEPT ![b] = Append(@, outputPath[b])]
            /\ tempFiles' = [tempFiles EXCEPT ![b] = Append(@, outputPath[b])]
            /\ hist' = hist
            /\ IF idx[b] < Len(req[b].files)
                 THEN /\ idx' = [idx EXCEPT ![b] = @ + 1]
                      /\ pc' = [pc EXCEPT ![b] = "validate"]
                      /\ response' = response
                 ELSE /\ Respond(b, 200, NoError, Append(outputFiles[b], outputPath[b]))
                      /\ pc' = [pc EXCEPT ![b] = "finally"]
                      /\ idx' = idx
  /\ UNCHANGED <<variant, now, fs, mtime, dirs, req, outputPath, stack, cl, del, get, sweep>>

(* A finally block that hands every recorded path to cleanupFiles: not     *)
(* what the code does                                                      *)
UploadsOf_all(files) == files

(* tempFiles.filter(file => file.startsWith(uploadsDir)) *)
UploadsOf(files) == SelectSeq(files, StartsWithUploadsDir)

(* finally { await cleanupFiles(tempFiles.filter(..)) } *)
H_Finally(b) ==
  /\ pc[b] = "finally"
  /\ cl' = [cl EXCEPT ![b] = StartCleanup(UploadsOf(tempFiles[b]))]
  /\ pc' = [pc EXCEPT ![b] = "cleanup"]
  /\ UNCHANGED <<variant, now, fs, mtime, dirs, req, idx, tempFiles, outputFiles,
                 outputPath, response, timer, stack, thrown, del, get, sweep, hist>>

H_Done(b) ==
  /\ pc[b] = "cleanup"
  /\ cl[b].pc = "done"
  /\ pc' = [pc EXCEPT ![b] = "done"]
  /\ UNCHANGED <<variant, now, fs, mtime, dirs, req, idx, tempFiles, outputFiles,
                 outputPath, response, timer, stack, thrown, cl, del, get, sweep, hist>>

----------------------------------------------------------------------------
(* The server *)

Variants == {"V2", "V4"}

Init ==
  /\ variant \in Variants
  /\ now = 0
  /\ fs = {}
  /\ dirs = {"uploads", "converted"}
  /\ pc = [b \in Batches |-> "idle"]
  /\ req = [b \in Batches |-> NoRequest]
  /\ idx = [b \in Batches |-> 0]
  /\ tempFiles = [b \in Batches |-> <<>>]
  /\ outputFiles = [b \in Batches |-> <<>>]
  /\ outputPath = [b \in Batches |-> NoPath]
  /\ response = [b \in Batches |-> NoResponse]
  /\ timer = [b \in Batches |-> NoTimer]
  /\ stack = [b \in Batches |-> <<>>]
  /\ thrown = [b \in Batches |-> NoError]
  /\ cl = [p \in Procs |-> IdleCleanup]
  /\ del = NoCall
  /\ get = NoCall
  /\ sweep = NoSweep
  /\ mtime = Kept(<<>>, {})
  /\ hist = [b \in Batches |-> NoHist]

Next ==
  \/ Tick
  \/ \E b \in Batches :
       \/ Receive(b) \/ H_Checks(b) \/ H_Validate(b) \/ H_Access(b)
       \/ H_PreValidate(b) \/ TimerFires(b) \/ H_AfterConvert(b)
       \/ H_Finally(b) \/ H_Done(b)
       \/ ConvExt(b) \/ ConvRename(b) \/ ConvUnlink(b) \/ ConvCall(b)
       \/ ConvThrow(b) \/ ConvReturn(b) \/ ConvFinally(b) \/ ConvAfterFinally(b)

Spec == Init /\ [][Next]_vars

(* The server of src/unnamed/part_000 1-491, whose handler converts in     *)
(* place                                                                   *)
InitV3 ==
  /\ variant = "V3"
  /\ now = 0
  /\ fs = {}
  /\ dirs = {"uploads", "converted"}
  /\ pc = [b \in Batches |-> "idle"]
  /\ req = [b \in Batches |-> NoRequest]
  /\ idx = [b \in Batches |-> 0]
  /\ tempFiles = [b \in Batches |-> <<>>]
  /\ outputFiles = [b \in Batches |-> <<>>]
  /\ outputPath = [b \in Batches |-> NoPath]
  /\ response = [b \in Batches |-> NoResponse]
  /\ timer = [b \in Batches |-> NoTimer]
  /\ stack = [b \in Batches |-> <<>>]
  /\ thrown = [b \in Batches |-> NoError]
  /\ cl = [p \in Procs |-> IdleCleanup]
  /\ del = NoCall
  /\ get = NoCall
  /\ sweep = NoSweep
  /\ mtime = Kept(<<>>, {})
  /\ hist = [b \in Batches |-> NoHist]

NextV3 ==
  \/ Tick
  \/ \E b \in Batches :
       \/ Receive(b) \/ H_Checks(b) \/ H_Validate(b) \/ H_Access(b)
       \/ H_PreValidate(b) \/ TimerFires(b) \/ H_AfterConvert(b)
       \/ H_Finally(b) \/ H_Done(b)
       \/ ConvExt(b) \/ ConvRename(b) \/ ConvPush(b) \/ ConvReturn(b)

SpecV3 == InitV3 /\ [][NextV3]_vars

----------------------------------------------------------------------------
(* One conversion on its own, from the switch of the handler on: the call  *)
(* convertX(inputPath, outputPath, format) of the server of                *)
(* src/server.js 382-855 or of src/unnamed/part_000 492-1292 for an        *)
(* input file that exists, then the end of the request.  The input is      *)
(* named as multer names an upload (no extension), which is what the       *)
(* handler passes, or with an extension, which is what the helpers pass    *)
(* each other and what a direct caller may pass.                           *)
InputExts == {"", "pdf", "docx", "png"}
Targets == {"jpg", "gif", "pdf", "docx", "zip", "mp3"}

Named(ext) == [Resolve(UploadPath(1, 1)) EXCEPT !.ext = ext]

InitConv ==
  /\ variant \in Variants
  /\ now = 0
  /\ dirs = {"uploads", "converted"}
  /\ \E type \in conversionTypes, ext \in InputExts, f \in Targets :
       /\ Dispatch(variant, type, f) # ""
       /\ fs = {Named(ext)}
       /\ req = [b \in Batches |->
                   IF b = 1
                     THEN [files |-> <<IF ext = "" THEN OriginalExt ELSE ext>>,
                           formats |-> <<[type |-> type, target |-> f]>>, json |-> TRUE]
                     ELSE NoRequest]
       /\ outputPath = [b \in Batches |->
                          IF b = 1 THEN OutputPath(UploadPath(1, 1), now, f) ELSE NoPath]
       /\ stack = [b \in Batches |->
                     IF b = 1
                       THEN <<Frame(variant, Dispatch(variant, type, f), Named(ext),
                                    OutputPath(UploadPath(1, 1), now, f), f, now)>>
                       ELSE <<>>]
  /\ pc = [b \in Batches |-> IF b = 1 THEN "converting" ELSE "idle"]
  /\ idx = [b \in Batches |-> IF b = 1 THEN 1 ELSE 0]
  /\ tempFiles = [b \in Batches |-> IF b = 1 THEN <<UploadPath(1, 1)>> ELSE <<>>]
  /\ outputFiles = [b \in Batches |-> <<>>]
  /\ response = [b \in Batches |-> NoResponse]
  /\ timer = [b \in Batches |->
                IF b = 1 THEN [armed |-> TRUE, due |-> now + conversionTimeout] ELSE NoTimer]
  /\ thrown = [b \in Batches |-> NoError]
  /\ cl = [p \in Procs |-> IdleCleanup]
  /\ del = NoCall
  /\ get = NoCall
  /\ sweep = NoSweep
  /\ mtime = Kept(<<>>, {})
  /\ hist = [b \in Batches |-> NoHist]

NextConv ==
  \/ Tick
  \/ \E b \in Batches :
       \/ ConvExt(b) \/ ConvRename(b) \/ ConvUnlink(b) \/ ConvCall(b)
       \/ ConvThrow(b) \/ ConvReturn(b) \/ ConvFinally(b) \/ ConvAfterFinally(b)
       \/ CleanupAccess(b) \/ CleanupUnlink(b) \/ CleanupDelay(b)
       \/ H_AfterConvert(b) \/ H_Finally(b) \/ H_Done(b)

SpecConv == InitConv /\ [][NextConv]_vars

----------------------------------------------------------------------------
(* cleanupFiles on its own: a direct caller passes any list of at most     *)
(* MaxPaths paths, over any content of the two directories.                *)

CleanupPaths ==
  { UploadPath(1, 1), Resolve(UploadPath(1, 1)),
    OutputPath(UploadPath(1, 1), 0, "jpg"), TempPdfPath(0) }

PathLists == UNION {[1..n -> CleanupPaths] : n \in 0..MaxPaths}

InitCleanup ==
  /\ variant \in Variants
  /\ now = 0
  /\ fs \in SUBSET {Resolve(p) : p \in CleanupPaths}
  /\ dirs = {"uploads", "converted"}
  /\ pc = [b \in Batches |-> "idle"]
  /\ req = [b \in Batches |-> NoRequest]
  /\ idx = [b \in Batches |-> 0]
  /\ tempFiles = [b \in Batches |-> <<>>]
  /\ outputFiles = [b \in Batches |-> <<>>]
  /\ outputPath = [b \in Batches |-> NoPath]
  /\ response = [b \in Batches |-> NoResponse]
  /\ timer = [b \in Batches |-> NoTimer]
  /\ stack = [b \in Batches |-> <<>>]
  /\ thrown = [b \in Batches |-> NoError]
  /\ \E filePaths \in PathLists :
       cl = [p \in Procs |-> IF p = Direct THEN StartCleanup(filePaths) ELSE IdleCleanup]
  /\ del = NoCall
  /\ get = NoCall
  /\ sweep = NoSweep
  /\ mtime = [p \in Converted(fs) |-> 0]
  /\ hist = [b \in Batches |-> NoHist]

NextCleanup ==
  \/ Tick
  \/ CleanupAccess(Direct)
  \/ CleanupUnlink(Direct)
  \/ CleanupDelay(Direct)

SpecCleanup == InitCleanup /\ [][NextCleanup]_vars

(* The same, with the event loop's guarantee that an awaited file system   *)
(* call settles and that the timer of a delay fires                        *)
SpecCleanupFair ==
  /\ SpecCleanup
  /\ WF_vars(CleanupAccess(Direct) \/ CleanupUnlink(Direct) \/ CleanupDelay(Direct))

(* The caller calls cleanupFiles again with the same list, once the call   *)
(* before has returned; prev keeps what that call logged and the files it  *)
(* left.                                                                   *)
CleanupAgain(p) ==
  /\ cl[p].pc = "done"
  /\ cl[p].paths # <<>>
  /\ Len(cl[p].prev) + 1 < MaxCalls
  /\ cl' = [cl EXCEPT ![p] =
              [StartCleanup(cl[p].paths) EXCEPT
                 !.prev = Append(cl[p].prev, [log |-> cl[p].log, fs |-> fs])]]
  /\ UNCHANGED <<variant, now, fs, mtime, dirs, pc, req, idx, tempFiles, outputFiles,
                 outputPath, response, timer, stack, thrown, del, get, sweep, hist>>

NextTwice ==
  \/ CleanupAccess(Direct)
  \/ CleanupUnlink(Direct)
  \/ CleanupDelay(Direct)
  \/ CleanupAgain(Direct)

SpecTwice == InitCleanup /\ [][NextTwice]_vars

----------------------------------------------------------------------------
(* Properties *)

(* The handler of batch b has answered *)
Ended(b) == pc[b] \in {"finally", "cleanup", "done"}

(* C1: once a batch has finished, whatever it answered (200, 400 or 500),  *)
(* none of its uploads is left in the uploads directory, and every output  *)
(* it produced is in the converted directory.                              *)
C1_UploadsDeletedAfterBatch ==
  \A b \in Batches :
    pc[b] = "done" =>
      /\ \A k \in DOMAIN req[b].files : ~Exists(UploadPath(b, k), fs)
      /\ \A n \in DOMAIN outputFiles[b] : outputFiles[b][n] \in fs

(* C2: a batch in which the timer of a file expired while its conversion   *)
(* was awaited ends with the failure "Conversion timed out", which no      *)
(* converter produces.                                                     *)
C2_ExpiryEndsInTimeoutFailure ==
  \A b \in Batches :
    (Ended(b) /\ hist[b].expired # {}) =>
      /\ response[b].status = 500
      /\ response[b].error = <<"Conversion timed out">>

(* C3: every finished call that named a temp_<timestamp>.pdf, whether it   *)
(* returned or threw, left no such file behind.                            *)
C3_TempGoneAfterCall ==
  \A b \in Batches : \A e \in hist[b].finished : ~e.left

(* The calls in flight: <<b, n>> is the n-th frame of handler b *)
InFlight == UNION {{<<b, n>> : n \in DOMAIN stack[b]} : b \in Batches}

TempOf(x) == stack[x[1]][x[2]].temp

(* C4: no two calls in flight name the same temp_<timestamp>.pdf, and no   *)
(* two batches that are converting write to the same output path.          *)
C4_NoSharedPathInFlight ==
  /\ \A x, y \in InFlight :
       (x # y /\ TempOf(x) # NoPath /\ TempOf(y) # NoPath) => TempOf(x) # TempOf(y)
  /\ \A a, b \in Batches :
       (a # b /\ pc[a] = "converting" /\ pc[b] = "converting") =>
         outputPath[a] # outputPath[b]

(* Every (file, format) entry of the request passes the checks of the loop *)
AllEntriesValid(r) ==
  /\ Len(r.files) = Len(r.formats)
  /\ \A k \in DOMAIN r.files :
       ValidationError(variant, InputExt(r.files[k]), r.formats[k]) = ""

(* C5: a converter has been invoked for a batch, or a file of the batch is *)
(* in the converted directory, only if every entry of the batch is valid.  *)
C5_AllValidatedBeforeAnyConversion ==
  \A b \in Batches :
    (hist[b].invoked # <<>> \/ \E p \in fs : p.kind = "out" /\ p.b = b) =>
      AllEntriesValid(req[b])

(* C6: when the conversion of file i has failed, no converter is invoked   *)
(* afterwards (neither for a later file nor again for file i), the batch   *)
(* is answered with one error and no file list, and the outputs of the     *)
(* files before i are still in the converted directory.                    *)
C6_BatchStopsAtFailure ==
  \A b \in Batches : \A e \in hist[b].failed :
    /\ Len(hist[b].invoked) = e.calls
    /\ \A n \in DOMAIN hist[b].invoked : hist[b].invoked[n].k <= e.k
    /\ Ended(b) /\ idx[b] = e.k
    /\ response[b].status = 500 /\ response[b].error # NoError /\ response[b].files = <<>>
    /\ Len(outputFiles[b]) = e.k - 1
    /\ \A n \in DOMAIN outputFiles[b] : outputFiles[b][n] \in fs

C6_Witness ==
  \E b \in Batches :
    /\ pc[b] = "done"
    /\ hist[b].failed # {}
    /\ idx[b] = 2
    /\ Len(outputFiles[b]) = 1
    /\ \E n \in DOMAIN hist[b].invoked : hist[b].invoked[n].k = 2

(* The request has as many files as descriptors, or not *)
Mismatch(r) == r.json /\ Len(r.files) # Len(r.formats)

MismatchAnswer(r) ==
  [status |-> 400,
   error |-> <<"Mismatch between files and formats", Len(r.files), Len(r.formats)>>,
   files |-> <<>>]

(* The handler of b has created, renamed and deleted nothing, and has      *)
(* started no conversion and no deletion.                                  *)
Untouched(b) ==
  /\ \A k \in DOMAIN req[b].files : Exists(UploadPath(b, k), fs)
  /\ ~\E p \in fs : p.b = b /\ p.kind # "up"
  /\ dirs = {"uploads", "converted"}
  /\ hist[b] = NoHist
  /\ stack[b] = <<>>
  /\ cl[b].paths = <<>> /\ cl[b].log = <<>>

C8_OneResultPerFileInOrder ==
  \A b \in Batches :
    (Ended(b) /\ hist[b].failed = {} /\ Len(req[b].files) >= 1
       /\ Len(outputFiles[b]) = Len(req[b].files)) =>
      /\ response[b].status = 200
      /\ Len(response[b].files) = Len(req[b].files)
      /\ \A k \in DOMAIN req[b].files :
           /\ response[b].files[k].kind = "out"
           /\ response[b].files[k].dir = "converted"
           /\ response[b].files[k].b = b
           /\ response[b].files[k].k = k
           /\ response[b].files[k].ext = OutputExt(req[b].formats[k])

C8_Witness ==
  \E b \in Batches :
    /\ pc[b] = "done"
    /\ response[b].status = 200
    /\ Len(response[b].files) = 2
    /\ response[b].files[1].ext # response[b].files[2].ext

(* C9: no call of cleanupFiles raises, whatever the list of paths and      *)
(* whatever access and unlink answer.                                      *)
C9_CleanupNeverRaises == \A p \in Procs : ~cl[p].raised

C9_Witness ==
  /\ cl[Direct].pc = "done"
  /\ Len(cl[Direct].paths) = 2
  /\ cl[Direct].log = << <<1, "OTHER">>, <<2, "EPERM">>, <<2, "EPERM">>, <<2, "EPERM">> >>

(* The number of EPERM failures met on the i-th path *)
Eperms(c, i) == Cardinality({n \in DOMAIN c.log : c.log[n] = <<i, "EPERM">>})

AllEperms(c) == Cardinality({n \in DOMAIN c.log : c.log[n][2] = "EPERM"})

(* C10: a path whose deletion fails with EPERM is tried at most maxRetries *)
(* times, each failure is followed by a wait of retryDelay, and after the  *)
(* last one cleanupFiles leaves the path and goes on, without raising.     *)
C10_EpermRetriedThenGivenUp ==
  LET c == cl[Direct] IN
  /\ \A i \in DOMAIN c.paths : Eperms(c, i) <= maxRetries
  /\ c.pc \in {"access", "unlink", "delay"} => c.attempts = Eperms(c, c.i)
  /\ c.waited = retryDelay * (AllEperms(c) - (IF c.pc = "delay" THEN 1 ELSE 0))
  /\ c.pc = "delay" => c.due <= now + retryDelay
  /\ \A i \in DOMAIN c.paths :
       (Eperms(c, i) = maxRetries /\ c.pc # "delay") => (c.i > i \/ c.pc = "done")
  /\ ~c.raised

C10_Witness ==
  /\ cl[Direct].pc = "done"
  /\ cl[Direct].waited = maxRetries * retryDelay
  /\ cl[Direct].log = << <<1, "EPERM">>, <<1, "EPERM">>, <<1, "EPERM">>, <<2, "deleted">> >>

(* C11: an error of access or unlink that is neither ENOENT nor EPERM is   *)
(* the last thing that happens to its path: cleanupFiles leaves the path   *)
(* at once, takes no delay for it and never tries it again.                *)
C11_OtherErrorEndsPath ==
  LET c == cl[Direct] IN
  \A n \in DOMAIN c.log :
    c.log[n][2] = "OTHER" =>
      /\ \A m \in DOMAIN c.log : m > n => c.log[m][1] # c.log[n][1]
      /\ c.i > c.log[n][1] \/ c.pc = "done"
      /\ c.waited <= retryDelay * AllEperms(c)

C11_Witness ==
  /\ cl[Direct].pc = "done"
  /\ cl[Direct].waited = 0
  /\ cl[Direct].log = << <<1, "OTHER">>, <<2, "deleted">> >>

(* The paths of a call that the call gave up on: the last thing it logged  *)
(* for them is an EPERM or another error.                                  *)
GivenUp(paths, log) ==
  {i \in DOMAIN paths :
     \E n \in DOMAIN log :
       /\ log[n][1] = i
       /\ log[n][2] \in FsFaults
       /\ \A m \in DOMAIN log : m > n => log[m][1] # i}

(* C12, as stated: a second call of cleanupFiles on the same list leaves   *)
(* the files exactly as the first call left them.                          *)
C12_TwiceSameAsOnce ==
  LET c == cl[Direct] IN
  c.prev # <<>> => fs = c.prev[Len(c.prev)].fs

(* C12, amended: a path found missing (ENOENT) is left at once, with no    *)
(* delay, no retry and no error raised; and a second call on the same list *)
(* removes nothing but paths the first call had given up on, so that it    *)
(* leaves the files as the first call left them when that call gave up on  *)
(* no path.                                                                *)
C12_IdempotentUnlessGivenUp ==
  LET c == cl[Direct] IN
  /\ ~c.raised
  /\ c.waited <= retryDelay * AllEperms(c)
  /\ \A n \in DOMAIN c.log :
       c.log[n][2] = "ENOENT" =>
         /\ \A m \in DOMAIN c.log : m > n => c.log[m][1] # c.log[n][1]
         /\ c.i > c.log[n][1] \/ c.pc = "done"
  /\ c.prev # <<>> =>
       LET first == c.prev[Len(c.prev)] IN
       /\ fs \subseteq first.fs
       /\ first.fs \ fs \subseteq {Resolve(c.paths[i]) : i \in GivenUp(c.paths, first.log)}

C12_Witness ==
  /\ cl[Direct].pc = "done"
  /\ Len(cl[Direct].prev) = 1
  /\ cl[Direct].prev[1].log = << <<1, "deleted">>, <<2, "ENOENT">> >>
  /\ cl[Direct].log = << <<1, "ENOENT">>, <<2, "ENOENT">> >>
  /\ fs = cl[Direct].prev[1].fs

----------------------------------------------------------------------------
(* The converted directory over time: downloads, DELETE requests and the   *)
(* periodic cleanup of src/unnamed/part_000, beside a conversion.          *)

(* now - stats.mtimeMs > 24 * 60 * 60 * 1000, every 60 * 60 * 1000 ms *)
RetentionMs == 24 * 60 * 60 * 1000
SweepEvery == 60 * 60 * 1000

(* The requests and runs under way *)
Started ==
  Cardinality({b \in Batches : pc[b] # "idle"})
    + (IF get.pc # "idle" THEN 1 ELSE 0)
    + (IF del.pc # "idle" THEN 1 ELSE 0)
    + (IF sweep.pc # "idle" THEN 1 ELSE 0)

(* Outputs of earlier batches, and a name no file has *)
OldOutput(k) == OutputPath(UploadPath(0, k), 0, "jpg")
NoSuchFile == OutputPath(UploadPath(0, 0), 0, "jpg")

(* req.params.filename, as path.resolve(convertedDir, filename) *)
FileNames == Converted(fs) \cup {NoSuchFile}

(* GET /converted/:filename, up to `await fsPromises.access(filePath)` *)
G_Request ==
  /\ get.pc = "idle"
  /\ Started < MaxRequests
  /\ \E p \in FileNames : get' = [pc |-> "access", path |-> p, status |-> 0]
  /\ UNCHANGED <<variant, now, fs, mtime, dirs, pc, req, idx, tempFiles, outputFiles,
                 outputPath, response, timer, stack, thrown, cl, del, sweep, hist>>

(* access returns: res.download(..) starts, or the catch answers 404 *)
G_Access ==
  /\ get.pc = "access"
  /\ \E ok \in (IF Exists(get.path, fs) THEN BOOLEAN ELSE {FALSE}) :
       get' = IF ok THEN [get EXCEPT !.pc = "sending"]
                    ELSE [get EXCEPT !.pc = "done", !.status = 404]
  /\ UNCHANGED <<variant, now, fs, mtime, dirs, pc, req, idx, tempFiles, outputFiles,
                 outputPath, response, timer, stack, thrown, cl, del, sweep, hist>>

(* A callback that cleans up whether or not the file was sent: not what    *)
(* the code does                                                           *)
G_Sent_always ==
  /\ get.pc = "sending"
  /\ \E ok \in (IF Exists(get.path, fs) THEN BOOLEAN ELSE {FALSE}) :
       /\ get' = [get EXCEPT !.pc = "cleanup", !.status = IF ok THEN 200 ELSE 500]
       /\ cl' = [cl EXCEPT ![Getter] = StartCleanup(<<get.path>>)]
  /\ UNCHANGED <<variant, now, fs, mtime, dirs, pc, req, idx, tempFiles, outputFiles,
                 outputPath, response, timer, stack, thrown, del, sweep, hist>>

(* The callback of res.download: on an error 500, else the file has been   *)
(* sent and cleanupFiles([filePath]) is called                             *)
G_Sent ==
  /\ get.pc = "sending"
  /\ \E ok \in (IF Exists(get.path, fs) THEN BOOLEAN ELSE {FALSE}) :
       IF ok
         THEN /\ get' = [get EXCEPT !.pc = "cleanup", !.status = 200]
              /\ cl' = [cl EXCEPT ![Getter] = StartCleanup(<<get.path>>)]
         ELSE /\ get' = [get EXCEPT !.pc = "done", !.status = 500]
              /\ cl' = cl
  /\ UNCHANGED <<variant, now, fs, mtime, dirs, pc, req, idx, tempFiles, outputFiles,
                 outputPath, response, timer, stack, thrown, del, sweep, hist>>

G_Done ==
  /\ get.pc = "cleanup"
  /\ cl[Getter].pc = "done"
  /\ get' = [get EXCEPT !.pc = "done"]
  /\ UNCHANGED <<variant, now, fs, mtime, dirs, pc, req, idx, tempFiles, outputFiles,
                 outputPath, response, timer, stack, thrown, cl, del, sweep, hist>>

(* DELETE /api/delete/:filename, up to `await cleanupFiles([filePath])` *)
D_Request ==
  /\ del.pc = "idle"
  /\ Started < MaxRequests
  /\ \E p \in FileNames :
       /\ del' = [pc |-> "cleanup", path |-> p, status |-> 0]
       /\ cl' = [cl EXCEPT ![Deleter] = StartCleanup(<<p>>)]
  /\ UNCHANGED <<variant, now, fs, mtime, dirs, pc, req, idx, tempFiles, outputFiles,
                 outputPath, response, timer, stack, thrown, get, sweep, hist>>

(* cleanupFiles has returned: 200, or 500 from the catch had it thrown *)
D_Done ==
  /\ del.pc = "cleanup"
  /\ cl[Deleter].pc = "done"
  /\ del' = [del EXCEPT !.pc = "done",
                        !.status = IF cl[Deleter].raised THEN 500 ELSE 200]
  /\ UNCHANGED <<variant, now, fs, mtime, dirs, pc, req, idx, tempFiles, outputFiles,
                 outputPath, response, timer, stack, thrown, cl, get, sweep, hist>>

(* The setInterval callback starts: `await fsPromises.readdir(convertedDir)`; *)
(* the server of src/server.js 382-855 sets no such interval                 *)
S_Fire ==
  /\ variant = "V4"
  /\ sweep.pc = "idle"
  /\ Started < MaxRequests
  /\ now % SweepEvery = 0
  /\ sweep' = [sweep EXCEPT !.pc = "readdir"]
  /\ UNCHANGED <<variant, now, fs, mtime, dirs, pc, req, idx, tempFiles, outputFiles,
                 outputPath, response, timer, stack, thrown, cl, del, get, hist>>

(* The listings of a set of files, in any order *)
Listings(files) ==
  {s \in [1..Cardinality(files) -> files] :
     \A m, n \in 1..Cardinality(files) : m # n => s[m] # s[n]}

(* readdir returns the files of the directory; const now = Date.now() *)
S_Readdir ==
  /\ sweep.pc = "readdir"
  /\ \E list \in Listings(Converted(fs)) :
       sweep' = [sweep EXCEPT !.pc = IF list = <<>> THEN "done" ELSE "stat",
                              !.files = list, !.k = 1, !.at = now]
  /\ UNCHANGED <<variant, now, fs, mtime, dirs, pc, req, idx, tempFiles, outputFiles,
                 outputPath, response, timer, stack, thrown, cl, del, get, hist>>

(* `for (const file of files)`: the next file, or the end of the run *)
NextFile(s) ==
  IF s.k < Len(s.files) THEN [s EXCEPT !.k = @ + 1, !.pc = "stat"]
                        ELSE [s EXCEPT !.pc = "done"]

(* The age test of the run: now - stats.mtimeMs > 24 h *)
TooOld(at, m) == at - m > RetentionMs

(* await fsPromises.stat(filePath): it throws when the file is gone, which *)
(* the outer catch takes as the end of the run; else the age test, and     *)
(* cleanupFiles([filePath]) for a file that is too old                     *)
S_Stat ==
  /\ sweep.pc = "stat"
  /\ LET file == sweep.files[sweep.k] IN
       IF file \notin fs
         THEN /\ sweep' = [sweep EXCEPT !.pc = "done", !.aborted = TRUE]
              /\ cl' = cl
         ELSE IF TooOld(sweep.at, mtime[file])
           THEN /\ sweep' = [sweep EXCEPT !.pc = "cleanup", !.passed = @ \cup {file}]
                /\ cl' = [cl EXCEPT ![Sweeper] = StartCleanup(<<file>>)]
           ELSE /\ sweep' = NextFile(sweep)
                /\ cl' = cl
  /\ UNCHANGED <<variant, now, fs, mtime, dirs, pc, req, idx, tempFiles, outputFiles,
                 outputPath, response, timer, stack, thrown, del, get, hist>>

(* cleanupFiles has returned to the loop of the run *)
S_Cleaned ==
  /\ sweep.pc = "cleanup"
  /\ cl[Sweeper].pc = "done"
  /\ sweep' = NextFile(sweep)
  /\ UNCHANGED <<variant, now, fs, mtime, dirs, pc, req, idx, tempFiles, outputFiles,
                 outputPath, response, timer, stack, thrown, cl, del, get, hist>>

(* The server has run for 25 hours: outputs of earlier batches are in the  *)
(* converted directory, 24 hours old or one millisecond more; a request to *)
(* convert one PDF to PNG may have just arrived.                           *)
StoredSets == SUBSET {OldOutput(k) : k \in 1..MaxStored}

PdfToPng == [files |-> Files(1), formats |-> <<[type |-> "pdfs", target |-> "png"]>>,
             json |-> TRUE]

InitFiles ==
  /\ variant \in Variants
  /\ now = RetentionMs + SweepEvery
  /\ dirs = {"uploads", "converted"}
  /\ \E stored \in StoredSets, arrived \in BOOLEAN :
       /\ fs = stored \cup (IF arrived THEN {Resolve(UploadPath(1, 1))} ELSE {})
       /\ mtime \in [stored -> {SweepEvery - 1, SweepEvery}]
       /\ pc = [b \in Batches |-> IF arrived /\ b = 1 THEN "ensure" ELSE "idle"]
       /\ req = [b \in Batches |-> IF arrived /\ b = 1 THEN PdfToPng ELSE NoRequest]
       /\ tempFiles = [b \in Batches |->
                         IF arrived /\ b = 1 THEN <<UploadPath(1, 1)>> ELSE <<>>]
  /\ idx = [b \in Batches |-> 0]
  /\ outputFiles = [b \in Batches |-> <<>>]
  /\ outputPath = [b \in Batches |-> NoPath]
  /\ response = [b \in Batches |-> NoResponse]
  /\ timer = [b \in Batches |-> NoTimer]
  /\ stack = [b \in Batches |-> <<>>]
  /\ thrown = [b \in Batches |-> NoError]
  /\ cl = [p \in Procs |-> IdleCleanup]
  /\ del = NoCall
  /\ get = NoCall
  /\ sweep = NoSweep
  /\ hist = [b \in Batches |-> NoHist]

NextFiles ==
  \/ G_Request \/ G_Access \/ G_Sent \/ G_Done
  \/ D_Request \/ D_Done
  \/ S_Fire \/ S_Readdir \/ S_Stat \/ S_Cleaned
  \/ \E p \in Batches \cup {Getter, Deleter, Sweeper} :
       CleanupAccess(p) \/ CleanupUnlink(p) \/ CleanupDelay(p)
  \/ \E b \in Batches :
       \/ H_Checks(b) \/ H_Validate(b) \/ H_Access(b) \/ H_PreValidate(b)
       \/ H_AfterConvert(b) \/ H_Finally(b) \/ H_Done(b)
       \/ ConvExt(b) \/ ConvRename(b) \/ ConvUnlink(b) \/ ConvCall(b) \/ ConvReturn(b)
       \/ ConvFinally(b) \/ ConvAfterFinally(b)

SpecFiles == InitFiles /\ [][NextFiles]_vars

----------------------------------------------------------------------------
(* The step of cleanupFiles, called by process p, that unlinks f *)
UnlinkedBy(p, f) ==
  /\ cl[p].pc = "unlink"
  /\ cl'[p] # cl[p]
  /\ Resolve(cl[p].paths[cl[p].i]) = f

(* C13: an output file in the converted directory is removed only by the   *)
(* cleanup that follows a successful download of it, by a DELETE request   *)
(* for it, or by the periodic cleanup once it has found the file more than *)
(* 24 hours old; no step of a conversion, of a batch's own cleanup or of   *)
(* another batch removes it.                                               *)
C13_OutputsRemovedByThreeEvents ==
  [][\A f \in fs \ fs' :
       f.kind = "out" =>
         \/ UnlinkedBy(Getter, f) /\ get.status = 200 /\ get.path = f
         \/ UnlinkedBy(Deleter, f) /\ del.path = f
         \/ UnlinkedBy(Sweeper, f) /\ TooOld(sweep.at, mtime[f])]_vars

(* A batch has ended with its output on disk, after its own cleanup, while *)
(* the periodic cleanup has removed an output of an earlier batch          *)
C13_Witness ==
  /\ pc[1] = "done"
  /\ response[1].status = 200
  /\ Len(response[1].files) = 1
  /\ response[1].files[1] \in fs
  /\ sweep.pc = "done"
  /\ \E f \in sweep.passed : f \notin fs

----------------------------------------------------------------------------
(* A batch that converted a PDF to GIF, through a temporary PNG *)
MultiStage(b) ==
  \E k \in DOMAIN req[b].formats :
    req[b].formats[k].type = "pdfs" /\ req[b].formats[k].target = "gif"

(* The files batch b has put in the converted directory *)
CreatedBy(b) == {p \in Converted(fs) : p.b = b}

(* C14: once a batch that used a multi-stage conversion has completed      *)
(* successfully, the files it created in the converted directory are the   *)
(* final outputs listed in its response: every intermediate file is gone.  *)
C14_OnlyFinalOutputsRemain ==
  \A b \in Batches :
    pc[b] = "done" /\ response[b].status = 200 /\ MultiStage(b) =>
      \A p \in CreatedBy(b) : \E k \in DOMAIN response[b].files : response[b].files[k] = p

----------------------------------------------------------------------------
(* The call under way in SpecConv, and the converter stages it has run *)
Root == stack[1][1]

IsStage(e) == e.op = "ext"

Stages == SelectSeq(hist[1].invoked, IsStage)

(* The call is one the handler makes for a request that passes its         *)
(* validation: some conversion type is dispatched to the helper, and the   *)
(* checks accept the file's extension (any, when the path carries none)    *)
(* and the target                                                          *)
PassesValidation(v, fn, ext, f) ==
  \E type \in conversionTypes :
    /\ Dispatch(v, type, f) = fn
    /\ \E orig \in (IF ext = "" THEN InputExts \ {""} ELSE {ext}) :
         ValidationError(v, orig, [type |-> type, target |-> f]) = ""

Returned ==
  /\ Len(stack[1]) = 1
  /\ thrown[1] = NoError
  /\ Root.ip > Len(Body(variant, Root))

(* C15: for a call that a validated request leads to, the converter stages *)
(* run are at most two, each stage's output extension is the next stage's  *)
(* input extension, and once the call has returned the last stage's output *)
(* extension is the requested target.                                      *)
C15_StagesChainToTarget ==
  stack[1] # <<>> /\ PassesValidation(variant, Root.fn, ExtName(Root.in), Root.fmt) =>
    /\ Len(Stages) <= 2
    /\ \A n \in 1..(Len(Stages) - 1) : Stages[n].out = Stages[n + 1].in
    /\ Returned => Stages # <<>> /\ Stages[Len(Stages)].out = Root.fmt

----------------------------------------------------------------------------
(* C16: the recursion among convertImage, convertDocument and convertPdf   *)
(* ends within a fixed number of nested calls, whatever the input          *)
(* extension and target: the nesting stays under the cap put on it here.   *)
C16_RecursionBounded == \A b \in Batches : Len(stack[b]) < MaxDepth

----------------------------------------------------------------------------
(* The errors of the helpers for a conversion they have no path for *)
UnsupportedErrors ==
  {"Unsupported image output format", "Unsupported PDF output format",
   "Unsupported output document format", "Unsupported document input format",
   "Unsupported archive format", "Unsupported compressor output format"}

(* C17: when a call made for a validated request fails with one of the     *)
(* 'Unsupported ... format' errors, no external converter has been invoked *)
(* and no file has been written for it before the error is raised.         *)
C17_UnsupportedBeforeAnyWork ==
  (/\ stack[1] # <<>>
   /\ thrown[1] # NoError
   /\ thrown[1][Len(thrown[1])] \in UnsupportedErrors
   /\ PassesValidation(variant, Root.fn, ExtName(Root.in), Root.fmt))
    => Stages = <<>> /\ \A p \in fs : p.kind = "up"

----------------------------------------------------------------------------
(* C18: once the conversion has written its output, the answer to the      *)
(* request is the success list, whatever the deletes of cleanupFiles have  *)
(* done: succeeded, failed with EPERM on all attempts, or failed with      *)
(* another error.                                                          *)
C18_ResponseIgnoresCleanup ==
  \A b \in Batches :
    pc[b] \in {"finally", "cleanup", "done"} /\ outputPath[b] \in fs =>
      response[b] = [status |-> 200, error |-> NoError, files |-> <<outputPath[b]>>]

(* The request has been answered with the success list although            *)
(* cleanupFiles, called in the finally block of a helper, has left the     *)
(* temp PDF on disk                                                        *)
C18_Witness ==
  /\ variant = "V2"
  /\ pc[1] = "done"
  /\ response[1].status = 200
  /\ \E e \in hist[1].finished : e.left /\ ~e.threw

----------------------------------------------------------------------------
(* C19: within a batch the files are converted one at a time in request    *)
(* order: the converters invoked are numbered by file in rising order, a   *)
(* call is under way only for the current file, and a converter is invoked *)
(* for file k + 1 only when the conversions of files 1..k have all ended   *)
(* successfully.                                                           *)
C19_OneAtATimeInOrder ==
  \A b \in Batches :
    /\ \A n \in DOMAIN hist[b].invoked :
         /\ hist[b].invoked[n].k <= Len(outputFiles[b]) + 1
         /\ n > 1 => hist[b].invoked[n - 1].k <= hist[b].invoked[n].k
    /\ stack[b] # <<>> => pc[b] = "converting" /\ idx[b] = Len(outputFiles[b]) + 1
    /\ \A e \in hist[b].failed : \A n \in DOMAIN hist[b].invoked : hist[b].invoked[n].k <= e.k

(* A converter has been invoked for the second file of a batch, after the  *)
(* first file's conversion ended successfully                              *)
C19_Witness ==
  \E b \in Batches :
    /\ Len(outputFiles[b]) >= 1
    /\ \E n \in DOMAIN hist[b].invoked : hist[b].invoked[n].k = 1
    /\ \E n \in DOMAIN hist[b].invoked : hist[b].invoked[n].k = 2
    /\ stack[b] # <<>>

----------------------------------------------------------------------------
(* C20: a run of the periodic cleanup that has ended has passed to         *)
(* cleanupFiles every file of the converted directory that is more than 24 *)
(* hours old, whatever downloads, DELETE requests and conversions ran      *)
(* beside it; and the run unlinks no file that is 24 hours old or younger. *)
C20_SweepTakesEveryOldFile ==
  /\ sweep.pc = "done" =>
       \A f \in Converted(fs) : TooOld(sweep.at, mtime[f]) => f \in sweep.passed
  /\ cl[Sweeper].pc = "unlink" =>
       \A f \in Converted(fs) :
         f = Resolve(cl[Sweeper].paths[cl[Sweeper].i]) => TooOld(now, mtime[f])

----------------------------------------------------------------------------
(* The files of the converted directory that the conversion of handler b   *)
(* is using: the temp file and the output of each call under way, and the  *)
(* inputs of the operations these calls have still to run                  *)
Pending(fr) ==
  {Body(variant, fr)[n].in : n \in fr.ip..Len(Body(variant, fr))}

Live(b) ==
  IF pc[b] # "converting" THEN {}
  ELSE Converted(UNION {Pending(stack[b][n]) \cup {stack[b][n].temp, stack[b][n].out} :
                          n \in DOMAIN stack[b]})

(* C21: a file that a conversion under way is using is removed only by a   *)
(* step of that conversion, never by the cleanup of another conversion,    *)
(* of a download, of a DELETE request or of the periodic cleanup.          *)
C21_LiveFilesRemovedByOwnerOnly ==
  [][\A b \in Batches : \A f \in (fs \ fs') \cap Live(b) :
       stack'[b] # stack[b] \/ cl'[b] # cl[b]]_vars

----------------------------------------------------------------------------
(* An entry with a supported type, a target in the output set of that type *)
(* and a supported input extension                                         *)
Acceptable(v, inputExt, formatInfo) ==
  /\ formatInfo.type \in (IF v = "V3" THEN conversionTypesV3 ELSE conversionTypes)
  /\ OutputExt(formatInfo) \in supportedFormats(v, formatInfo.type)
  /\ inputExt \in allFormats(v)

InvalidFormatErrors ==
  {<<"Invalid format information: type, subSection, and target are required.">>,
   <<"Invalid format information: type and target are required.">>}

(* C22: subSection is optional: a batch is not refused with 'Invalid       *)
(* format information' at an entry that has a supported type, a target in  *)
(* that type's output set and a supported input extension, whether or not  *)
(* the entry carries a subSection.                                         *)
C22_SubSectionOptional ==
  \A b \in Batches :
    (Ended(b) /\ response[b].error \in InvalidFormatErrors) =>
      ~Acceptable(variant, InputExt(req[b].files[idx[b]]), req[b].formats[idx[b]])

----------------------------------------------------------------------------
(* The declared type of the request of SpecConv *)
DeclaredType == req[1].formats[1].type

(* C23: in the server that derives outputType from the target extension,   *)
(* the helper called for a validated request is the same for every         *)
(* declared type, and outputType is never 'pdfs' nor 'compressor'.         *)
C23_ConverterByTargetAlone ==
  /\ (variant = "V2" /\ now = 0 /\ Len(stack[1]) = 1 /\ hist[1].invoked = <<>>
        /\ Root.ip = 1 /\ thrown[1] = NoError) =>
       \A t1, t2 \in conversionTypes : \A f \in allFormats("V2") :
         (f \in supportedFormats("V2", t1) /\ f \in supportedFormats("V2", t2)) =>
           /\ Dispatch("V2", t1, f) = Dispatch("V2", t2, f)
           /\ outputType(f, t1) \notin {"pdfs", "compressor"}
  /\ (/\ variant = "V2"
      /\ stack[1] # <<>>
      /\ ValidationError(variant, InputExt(req[1].files[1]), req[1].formats[1]) = "")
       => \A t \in conversionTypes :
            Root.fmt \in supportedFormats("V2", t) =>
              Root.fn = Dispatch("V2", t, Root.fmt)

(* A request that declares type 'pdfs' with target jpg has been handed to  *)
(* convertImage                                                            *)
C23_Witness ==
  /\ variant = "V2"
  /\ stack[1] # <<>>
  /\ DeclaredType = "pdfs"
  /\ Root.fmt = "jpg"
  /\ Root.fn = "convertImage"
  /\ ValidationError(variant, InputExt(req[1].files[1]), req[1].formats[1]) = ""

----------------------------------------------------------------------------
(* C24: cleanupFiles ends, whatever the outcomes of access and unlink      *)
(* are, and never makes more than maxRetries attempts that fail with EPERM *)
(* on a path.                                                              *)
C24_CleanupTerminates ==
  /\ <>(cl[Direct].pc = "done")
  /\ [](cl[Direct].attempts <= maxRetries)
  /\ [](\A i \in DOMAIN cl[Direct].paths : Eperms(cl[Direct], i) <= maxRetries)

(* The call has ended although every attempt on each of two paths failed   *)
(* with EPERM                                                              *)
C24_Witness ==
  /\ cl[Direct].pc = "done"
  /\ Len(cl[Direct].paths) = 2
  /\ \A i \in DOMAIN cl[Direct].paths : Eperms(cl[Direct], i) = maxRetries
  /\ cl[Direct].waited = 2 * maxRetries * retryDelay

----------------------------------------------------------------------------
(* What the GET request does to the file system: the cleanup it started *)
GetCleanup == cl[Getter]

OnlyAfterSent ==
  /\ GetCleanup # IdleCleanup => get.status = 200 /\ GetCleanup.paths = <<get.path>>
  /\ get.status \in {404, 500} => GetCleanup = IdleCleanup

(* C25: GET /converted/:filename deletes the file after, and only after,   *)
(* it has been sent: once a download has been answered 200 and its         *)
(* callback is over, the file is gone, so that a later GET for the name is *)
(* answered 404; a 404 or a failed send starts no cleanup.                 *)
C25_ServedFileIsGone ==
  /\ OnlyAfterSent
  /\ (get.pc = "done" /\ get.status = 200) => get.path \notin fs

(* C25, with the failure of the delete taken into account: after a         *)
(* download answered 200 the file is still there only when cleanupFiles    *)
(* gave up on it (EPERM on every attempt, or another error).               *)
C25_ServedFileIsGoneUnlessGivenUp ==
  /\ OnlyAfterSent
  /\ (get.pc = "done" /\ get.status = 200 /\ get.path \in fs) =>
       GivenUp(GetCleanup.paths, GetCleanup.log) = {1}
  /\ (get.pc = "done" /\ get.status = 200
        /\ GivenUp(GetCleanup.paths, GetCleanup.log) = {}) => get.path \notin fs

(* A download has been answered 200 and its cleanup has deleted the file *)
C25_Witness ==
  /\ get.pc = "done"
  /\ get.status = 200
  /\ GetCleanup.log = << <<1, "deleted">> >>
  /\ get.path \notin fs

----------------------------------------------------------------------------
(* C26: the extension the helper called by the handler branches on, taken  *)
(* from inputPath, is the extension the handler validated, taken from the  *)
(* file's original name.                                                   *)
C26_RoutedAsValidated ==
  \A b \in Batches :
    (pc[b] = "converting" /\ stack[b] # <<>>) =>
      ExtName(stack[b][1].in) = InputExt(req[b].files[idx[b]])

----------------------------------------------------------------------------
(* C27: when the success response is sent, every file it lists is in the   *)
(* converted directory: for each accepted (type, target) the handler has   *)
(* written outputPath or failed the request.                               *)
C27_ListedFilesExist ==
  \A b \in Batches :
    (pc[b] = "finally" /\ response[b].status = 200) =>
      \A k \in DOMAIN response[b].files : response[b].files[k] \in fs

----------------------------------------------------------------------------
(* What the call has logged for its i-th path *)
LogOf(c, i) == SelectSeq(c.log, LAMBDA e : e[1] = i)

(* C28: a path on which every attempt fails with EPERM is attempted        *)
(* exactly maxRetries times in all, each failed attempt, the last one      *)
(* included, is followed by a wait of retryDelay, and the path is not      *)
(* deleted.                                                                *)
C28_ExactlyMaxRetriesAttempts ==
  /\ [](LET c == cl[Direct] IN
        \A i \in DOMAIN c.paths :
          /\ Eperms(c, i) <= maxRetries
          /\ (Len(LogOf(c, i)) = Eperms(c, i) /\ Eperms(c, i) > 0
                /\ (c.i > i \/ c.pc = "done")) =>
               /\ Len(LogOf(c, i)) = maxRetries
               /\ c.waited >= retryDelay * maxRetries
               /\ c.waited = retryDelay * (AllEperms(c) - (IF c.pc = "delay" THEN 1 ELSE 0))
               /\ now >= retryDelay)
  /\ [][(/\ Len(cl'[Direct].log) = Len(cl[Direct].log) + 1
          /\ cl'[Direct].log[Len(cl'[Direct].log)][2] = "EPERM") => fs' = fs]_vars

(* One path that exists, three EPERM failures, three waits, and the file   *)
(* is still there                                                          *)
C28_Witness ==
  /\ cl[Direct].pc = "done"
  /\ Len(cl[Direct].paths) = 1
  /\ cl[Direct].log = << <<1, "EPERM">>, <<1, "EPERM">>, <<1, "EPERM">> >>
  /\ cl[Direct].waited = maxRetries * retryDelay
  /\ Exists(cl[Direct].paths[1], fs)

(* The outcomes that end the work on a list entry *)
Final == {"deleted", "ENOENT", "OTHER"}

(* The i-th entry of the list is over: deleted, missing, failed, or given  *)
(* up after maxRetries EPERM failures.                                     *)
EntryOver(c, i) ==
  \/ \E n \in DOMAIN c.log : c.log[n][1] = i /\ c.log[n][2] \in Final
  \/ Eperms(c, i) = maxRetries /\ ~(c.i = i /\ c.pc = "delay")

(* C29: cleanupFiles takes the entries of its list in list order and       *)
(* reaches every one of them, whatever the outcome of the entries before   *)
(* (missing, given up, other error); an entry whose delete succeeded is    *)
(* never attempted again.                                                  *)
C29_EveryPathInOrder ==
  LET c == cl[Direct] IN
  /\ \A m, n \in DOMAIN c.log : m < n => c.log[m][1] <= c.log[n][1]
  /\ \A n \in DOMAIN c.log : c.log[n][1] <= c.i
  /\ \A i \in DOMAIN c.paths : i < c.i => EntryOver(c, i)
  /\ c.pc = "done" => (c.i = Len(c.paths) /\ \A i \in DOMAIN c.paths : EntryOver(c, i))
  /\ \A n \in DOMAIN c.log :
       c.log[n][2] = "deleted" => \A m \in DOMAIN c.log : m > n => c.log[m][1] > c.log[n][1]

(* A missing first path, then a second one deleted *)
C29_Witness ==
  /\ cl[Direct].pc = "done"
  /\ Len(cl[Direct].paths) = 2
  /\ cl[Direct].log = << <<1, "ENOENT">>, <<2, "deleted">> >>
  /\ ~Exists(cl[Direct].paths[2], fs)

(* C30: DELETE /api/delete/:filename answers 200 in every case, the file   *)
(* deleted, never there, or not deletable: cleanupFiles never throws, so   *)
(* the catch that answers 500 is never entered.                            *)
C30_DeleteAlwaysAnswers200 ==
  /\ ~cl[Deleter].raised
  /\ del.status \in {0, 200}
  /\ del.pc = "done" =>
       /\ del.status = 200
       /\ cl[Deleter].pc = "done"
       /\ cl[Deleter].paths = <<del.path>>
       /\ cl[Deleter].log # <<>>

(* A 200 answer for a file that cleanupFiles gave up on and that is still  *)
(* in the converted directory                                              *)
C30_Witness ==
  /\ del.pc = "done"
  /\ del.status = 200
  /\ Exists(del.path, fs)
  /\ GivenUp(cl[Deleter].paths, cl[Deleter].log) = {1}

====
